---------------------------- MODULE Spec2Model ----------------------------
(***************************************************************************)
(* Attendance Session Engine of the Face-Recognition-Attendance-System.    *)
(*                                                                         *)
(* The module holds several specifications over one set of variables:      *)
(*   SpecLedger  the ledger operations called one after another            *)
(*               (update_attendance_in_database, mark_attendance,          *)
(*               mark_absent_for_unmarked_students, the timed sweep);      *)
(*   Spec        one session: the worker thread of attendance_system.main  *)
(*               beside the request threads of stop_script and             *)
(*               mobile_recognize, interleaved at their loads and saves;   *)
(*   SpecWorker  the worker thread of a session with no other writer;      *)
(*   SpecClosure the worker thread of a session nobody stops, under the    *)
(*               fairness of a running thread;                             *)
(*   SpecWrite   atomic_write_json step by step, with crashes and readers; *)
(*   SpecDedup   the cooldown cache and its periodic cleanup;              *)
(*   SpecMatch   the identity matcher on given distances;                  *)
(*   SpecLiveness the liveness gate: classifier load, verdicts, window;    *)
(*   SpecStart   the requests to /start and /stop and the worker threads;  *)
(*   SpecPublish the frame publisher and a reader of /video_feed;          *)
(*   SpecKey     the worker thread while the selected subject and the date *)
(*               change.                                                   *)
(* Every specification leaves the variables of the others unchanged.       *)
(***************************************************************************)
EXTENDS Integers, Sequences, FiniteSets, TLC

(***************************************************************************)
(* The world the model runs in: the roster (student_data.json), the        *)
(* curriculum (curriculum.json) and the lectures a teacher can select.     *)
(***************************************************************************)
StudentIds == {"S1", "S2", "S3"}

\* dict iteration order of student_data.json (insertion order of the file)
RosterOrder == <<"S1", "S2", "S3">>

Lectures == {"L1", "L2"}

\* get_subject_year: the year whose semesters list the subject, None otherwise
get_subject_year(lecture) ==
    CASE lecture = "L1" -> "Y1"
      [] lecture = "L2" -> "Y2"
      [] OTHER -> "none"

\* student_data.json as first loaded: year, subjects and total_attendance of
\* every enrolled student (name and last_attendance_time are display fields
\* that no operation reads back; they are not modelled)
InitStudents ==
    [s \in StudentIds |->
        IF s = "S3"
        THEN [year |-> "Y2", subjects |-> {"L1", "L2"}, total |-> 0]
        ELSE [year |-> "Y1", subjects |-> {"L1"}, total |-> 0]]

(***************************************************************************)
(* Python list helpers.                                                    *)
(***************************************************************************)
\* x in list
InList(x, s) == \E i \in 1..Len(s) : s[i] = x

\* set(list)
SetOf(s) == {s[i] : i \in 1..Len(s)}

\* list.remove(x): drops the first occurrence (the callers test membership first)
ListRemove(s, x) ==
    LET i == CHOOSE k \in 1..Len(s) : s[k] = x /\ \A j \in 1..(k - 1) : s[j] # x
    IN  SubSeq(s, 1, i - 1) \o SubSeq(s, i + 1, Len(s))

\* f"{today}_{lecture}"
Key(date, lecture) == <<date, lecture>>

\* {'present': [], 'absent': [], 'time': current_time}
EmptyRec(now) == [present |-> <<>>, absent |-> <<>>, time |-> now]

\* records.get('records', {}).get(key, default)
GetRec(recs, key, now) == IF key \in DOMAIN recs THEN recs[key] ELSE EmptyRec(now)

\* records['records'][key] = rec
PutRec(recs, key, rec) ==
    [k \in DOMAIN recs \cup {key} |-> IF k = key THEN rec ELSE recs[k]]

(***************************************************************************)
(* attendance_system.update_attendance_in_database, the ledger part        *)
(* (lines 267-292): the entry after the status of student_id is set.       *)
(***************************************************************************)
UpdateRecKeepAbsent(rec, student_id, status, now) ==
    \* mutant: 'Present' forgets to remove the id from absent
    IF status = "Present"
    THEN [present |-> IF InList(student_id, rec.present) THEN rec.present
                      ELSE Append(rec.present, student_id),
          absent |-> rec.absent, time |-> now]
    ELSE [present |-> IF InList(student_id, rec.present)
                      THEN ListRemove(rec.present, student_id) ELSE rec.present,
          absent |-> IF InList(student_id, rec.absent) THEN rec.absent
                     ELSE Append(rec.absent, student_id),
          time |-> now]

UpdateRecAlwaysAppend(rec, student_id, status, now) ==
    \* mutant: 'Present' appends without the membership test
    IF status = "Present"
    THEN [present |-> Append(rec.present, student_id),
          absent |-> IF InList(student_id, rec.absent)
                     THEN ListRemove(rec.absent, student_id) ELSE rec.absent,
          time |-> now]
    ELSE [present |-> IF InList(student_id, rec.present)
                      THEN ListRemove(rec.present, student_id) ELSE rec.present,
          absent |-> IF InList(student_id, rec.absent) THEN rec.absent
                     ELSE Append(rec.absent, student_id),
          time |-> now]

UpdateRec(rec, student_id, status, now) ==
    IF status = "Present"
    THEN [present |-> IF InList(student_id, rec.present) THEN rec.present
                      ELSE Append(rec.present, student_id),
          absent |-> IF InList(student_id, rec.absent)
                     THEN ListRemove(rec.absent, student_id) ELSE rec.absent,
          time |-> now]
    ELSE [present |-> IF InList(student_id, rec.present)
                      THEN ListRemove(rec.present, student_id) ELSE rec.present,
          absent |-> IF InList(student_id, rec.absent) THEN rec.absent
                     ELSE Append(rec.absent, student_id),
          time |-> now]

\* attendance_core.update_attendance_in_database, the ledger part (lines 212-242)
CoreUpdateRec(rec, student_id, status, now) ==
    IF status = "Present"
    THEN [present |-> IF InList(student_id, rec.present) THEN rec.present
                      ELSE Append(rec.present, student_id),
          absent |-> IF InList(student_id, rec.absent)
                     THEN ListRemove(rec.absent, student_id) ELSE rec.absent,
          time |-> now]
    ELSE [present |-> IF InList(student_id, rec.present)
                      THEN ListRemove(rec.present, student_id) ELSE rec.present,
          absent |-> IF InList(student_id, rec.absent) THEN rec.absent
                     ELSE Append(rec.absent, student_id),
          time |-> now]

\* update_attendance_in_database, the student part (lines 295-314): the
\* roster after the call. was_present is taken from the entry as loaded.
UpdateStudents(studs, student_id, status, was_present) ==
    LET known == student_id \in DOMAIN studs
        prev_total == IF known THEN studs[student_id].total ELSE 0
        total == IF status = "Present" /\ ~was_present THEN prev_total + 1
                 ELSE prev_total
    IN  [s \in DOMAIN studs \cup {student_id} |->
            IF s # student_id THEN studs[s]
            ELSE IF known THEN [studs[s] EXCEPT !.total = total]
            ELSE [year |-> "none", subjects |-> {}, total |-> total]]

(***************************************************************************)
(* mobile_routes.mark_attendance (lines 180-209): the entry it would save, *)
(* and whether it saves at all (an id already present returns early).      *)
(***************************************************************************)
MobileWrites(rec, student_id) == ~InList(student_id, rec.present)

MobileRec(rec, student_id) ==
    [rec EXCEPT
        !.absent = IF InList(student_id, rec.absent)
                   THEN ListRemove(rec.absent, student_id) ELSE rec.absent,
        !.present = IF InList(student_id, rec.present) THEN rec.present
                    ELSE Append(rec.present, student_id)]

(***************************************************************************)
(* app.mark_absent_for_unmarked_students (lines 2403-2434).                *)
(***************************************************************************)
\* enrolled_students: the ids whose 'subjects' list the lecture, in file order
Enrolled(studs, lecture) ==
    SelectSeq(RosterOrder,
              LAMBDA s : s \in DOMAIN studs /\ lecture \in studs[s].subjects)

RECURSIVE AppSweepList(_, _, _, _)
\* the loop of lines 2428-2432: present_students and absent_students are the
\* sets taken before the loop
AppSweepList(absent, enrolled, present_students, absent_students) ==
    IF enrolled = <<>> THEN absent
    ELSE LET sid == Head(enrolled)
         IN  AppSweepList(IF sid \notin present_students /\ sid \notin absent_students
                          THEN Append(absent, sid) ELSE absent,
                          Tail(enrolled), present_students, absent_students)

AppSweepRec(rec, enrolled) ==
    [rec EXCEPT !.absent = AppSweepList(rec.absent, enrolled,
                                        SetOf(rec.present), SetOf(rec.absent))]

(***************************************************************************)
(* The timed sweep of attendance_system.main (lines 745-768).              *)
(***************************************************************************)
SweepTargetsAll(studs, lecture, present_students) ==
    \* mutant: the present snapshot is not subtracted
    SelectSeq(RosterOrder,
              LAMBDA s : /\ s \in DOMAIN studs
                         /\ studs[s].year = get_subject_year(lecture))

\* the students the loop of line 758 calls update_attendance_in_database
\* (..., 'Absent') for: same year as the subject, not in the present snapshot
SweepTargets(studs, lecture, present_students) ==
    SelectSeq(RosterOrder,
              LAMBDA s : /\ s \in DOMAIN studs
                         /\ studs[s].year = get_subject_year(lecture)
                         /\ s \notin present_students)

(***************************************************************************)
(* The cooldown test of attendance_system.main (line 650).                 *)
(***************************************************************************)
recognition_cooldown == 8

SuppressedAtBoundary(rr, student_id, now) ==
    \* mutant: an event exactly one cooldown after the last one is suppressed too
    /\ student_id \in DOMAIN rr
    /\ now - rr[student_id] <= recognition_cooldown

\* student_id in recently_recognized and
\* current_time - recently_recognized[student_id] < recognition_cooldown
Suppressed(rr, student_id, now) ==
    /\ student_id \in DOMAIN rr
    /\ now - rr[student_id] < recognition_cooldown

\* recently_recognized[student_id] = current_time (line 660)
Remember(rr, student_id, now) ==
    [k \in DOMAIN rr \cup {student_id} |-> IF k = student_id THEN now ELSE rr[k]]

(***************************************************************************)
(* State.                                                                  *)
(***************************************************************************)
VARIABLES
    \* the files and the clock
    records,            \* attendance_records.json: key -> entry
    students,           \* student_data.json: id -> [year, subjects, total]
    clock,              \* wall clock, seconds
    today,              \* calendar date of datetime.now()
    current_teacher,    \* current_teacher.json: the lecture in force
    lastCall,           \* history: the last ledger operation that returned
    \* shared_data
    running,            \* shared_data['running']
    absence_marked,     \* shared_data['absence_marked']
    \* the worker thread running attendance_system.main
    wpc,                \* where the worker is
    frame_counter,
    start_time,
    attendance_active,
    recently_recognized, \* id -> time of the last accepted recognition
    current_lecture,
    wfaces,             \* matched ids of the frame still to handle
    wtargets,           \* students the sweep still has to mark absent
    wrec,               \* records as loaded by the update in progress
    wnow,               \* current_time of the update in progress
    \* one request thread of mobile_routes.mobile_recognize
    mpc, mid, mrec, mnow,
    \* the request thread of app.stop_script
    spc, slecture, srec, snow, stopAt,
    \* history of the session, read by the properties only
    hist,
    \* one call of atomic_write_json on attendance_records.json, and a reader
    platform,           \* the operating system the program runs on
    ledgerFile,         \* attendance_records.json on disk
    tmpFile,            \* the file made by tempfile.mkstemp
    apc,                \* where the writer is
    aver,               \* the version of the data being written
    aprev,              \* the ledger file when the write began
    lastRead,           \* what the last load_attendance_records returned
    \* history of the cooldown decisions, read by the properties only
    dhist,
    \* the identity matcher: its inputs and its result
    mknown,             \* studentIds as loaded from EncodeFile.p
    mdist,              \* face_distance(encodeListKnown, encode_face), in 1/100
    mresult,
    \* the liveness gate of the worker
    YOLO,               \* the name YOLO after the import of lines 9-12
    spoofModel,         \* "unloaded" before line 515, then "none" or "loaded"
    glog,               \* the lines the classifier load has printed
    gtime,              \* time.time() of the worker, in 1/10 s
    has_last_spoof_check,   \* 'last_spoof_check' in shared_data
    last_spoof_check,       \* shared_data['last_spoof_check'], in 1/10 s
    recent_spoof_results,   \* shared_data['recent_spoof_results']
    ghist,              \* history of the gate's last frame, read by the properties only
    \* the request threads of app.start_script and the threads they spawn
    starts,             \* request -> where its start_script is
    reply,              \* request -> what its start_script has returned
    threads,            \* request -> where the thread it spawned is
    camera,             \* the capture device can be opened
    \* the frame publisher and one reader of /video_feed
    frame_jpeg,         \* shared_data['frame_jpeg']: the frame's number, 0 for None
    frame_updated,      \* shared_data['frame_updated'], 0 while the key is absent
    ptime,              \* time.time(), in ticks of the clock's resolution
    ppc,                \* where the publisher is
    pframes,            \* frames encoded so far
    rpc,                \* where the reader's generator is
    last_frame_time,
    phist               \* history of the publisher and reader, read by the properties only

fileVars == <<records, students, clock, today, current_teacher>>

workerVars == <<wpc, frame_counter, start_time, attendance_active,
                recently_recognized, current_lecture, wfaces, wtargets, wrec, wnow>>

mobileVars == <<mpc, mid, mrec, mnow>>

stopVars == <<spc, slecture, srec, snow, stopAt>>

sessionVars == <<running, absence_marked, workerVars, mobileVars, stopVars, hist>>

writeVars == <<platform, ledgerFile, tmpFile, apc, aver, aprev, lastRead>>

matchVars == <<mknown, mdist, mresult>>

gateVars == <<YOLO, spoofModel, glog, gtime, has_last_spoof_check, last_spoof_check,
              recent_spoof_results, ghist>>

startVars == <<starts, reply, threads, camera>>

pubVars == <<frame_jpeg, frame_updated, ptime, ppc, pframes, rpc, last_frame_time, phist>>

toolVars == <<writeVars, dhist, matchVars, gateVars, startVars, pubVars>>

vars == <<fileVars, lastCall, sessionVars, toolVars>>

(***************************************************************************)
(* SpecLedger: the ledger operations, each called to completion.           *)
(***************************************************************************)
\* bound: number of ledger operations in a run
MaxCalls == 3

\* bound: the clock of SpecLedger stops here
MaxLedgerClock == 1

NoCall ==
    [n |-> 0, op |-> "none", id |-> "none", key |-> Key("D1", "L1"), saved |-> FALSE,
     twice |-> FALSE]

\* the operations that are a markPresent
PresentOps == {"present", "mobile"}

\* history: the call that returned, and whether it is the second of two
\* saved markPresent calls in a row for one key and id
Called(op, id, key, saved) ==
    lastCall' = [n |-> lastCall.n + 1, op |-> op, id |-> id, key |-> key, saved |-> saved,
                 twice |-> /\ op \in PresentOps /\ saved
                           /\ lastCall.op \in PresentOps /\ lastCall.saved
                           /\ lastCall.id = id /\ lastCall.key = key]

\* attendance_system.mark_present -> update_attendance_in_database(.., 'Present').
\* okL, okS: whether atomic_write_json succeeds for the ledger and the roster
\* (save_attendance_records and save_student_data swallow the exception).
LSysPresent(id, lecture, okL, okS) ==
    LET key == Key(today, lecture)
        rec == GetRec(records, key, clock)
    IN  /\ lastCall.n < MaxCalls
        /\ records' = IF okL THEN PutRec(records, key, UpdateRec(rec, id, "Present", clock))
                      ELSE records
        /\ students' = IF okS
                       THEN UpdateStudents(students, id, "Present", InList(id, rec.present))
                       ELSE students
        /\ Called("present", id, key, okL)
        /\ UNCHANGED <<clock, today, current_teacher, sessionVars, toolVars>>

\* attendance_core.update_attendance_in_database(.., 'Present'), called by
\* recognize_face_and_mark_attendance
LCorePresent(id, lecture, okL, okS) ==
    LET key == Key(today, lecture)
        rec == GetRec(records, key, clock)
    IN  /\ lastCall.n < MaxCalls
        /\ records' = IF okL THEN PutRec(records, key, CoreUpdateRec(rec, id, "Present", clock))
                      ELSE records
        /\ students' = IF okS
                       THEN UpdateStudents(students, id, "Present", InList(id, rec.present))
                       ELSE students
        /\ Called("present", id, key, okL)
        /\ UNCHANGED <<clock, today, current_teacher, sessionVars, toolVars>>

\* mobile_routes.mark_attendance
LMobileMark(id, lecture, okL) ==
    LET key == Key(today, lecture)
        rec == GetRec(records, key, clock)
        writes == MobileWrites(rec, id)
    IN  /\ lastCall.n < MaxCalls
        /\ records' = IF writes /\ okL THEN PutRec(records, key, MobileRec(rec, id))
                      ELSE records
        /\ Called("mobile", id, key, okL \/ ~writes)
        /\ UNCHANGED <<students, clock, today, current_teacher, sessionVars, toolVars>>

\* app.mark_absent_for_unmarked_students
LAppSweep(lecture, okL) ==
    LET key == Key(today, lecture)
        enrolled == Enrolled(students, lecture)
        rec == GetRec(records, key, clock)
    IN  /\ lastCall.n < MaxCalls
        /\ records' = IF enrolled # <<>> /\ okL
                      THEN PutRec(records, key, AppSweepRec(rec, enrolled))
                      ELSE records
        /\ Called("appsweep", "none", key, okL)
        /\ UNCHANGED <<students, clock, today, current_teacher, sessionVars, toolVars>>

RECURSIVE SweepFold(_, _, _, _, _)
\* the loop of attendance_system.main lines 758-768, run to completion: one
\* update_attendance_in_database(.., 'Absent') per target; failed is the set of
\* ids whose ledger write fails
SweepFold(recs, targets, key, now, failed) ==
    IF targets = <<>> THEN recs
    ELSE LET sid == Head(targets)
             rec == GetRec(recs, key, now)
         IN  SweepFold(IF sid \in failed THEN recs
                       ELSE PutRec(recs, key, UpdateRec(rec, sid, "Absent", now)),
                       Tail(targets), key, now, failed)

\* the timed sweep of attendance_system.main, with no other writer in between
LMainSweep(lecture, failed) ==
    LET key == Key(today, lecture)
        present_students == IF key \in DOMAIN records THEN SetOf(records[key].present) ELSE {}
        targets == IF get_subject_year(lecture) = "none" THEN <<>>
                   ELSE SweepTargets(students, lecture, present_students)
    IN  /\ lastCall.n < MaxCalls
        /\ records' = SweepFold(records, targets, key, clock, failed)
        /\ Called("sweep", "none", key, failed = {})
        /\ UNCHANGED <<students, clock, today, current_teacher, sessionVars, toolVars>>

LTick ==
    /\ clock < MaxLedgerClock
    /\ clock' = clock + 1
    /\ UNCHANGED <<records, students, today, current_teacher, lastCall, sessionVars, toolVars>>


NextLedger ==
    \/ \E id \in StudentIds, lecture \in Lectures, okL, okS \in BOOLEAN :
          LSysPresent(id, lecture, okL, okS)
    \/ \E id \in StudentIds, lecture \in Lectures, okL, okS \in BOOLEAN :
          LCorePresent(id, lecture, okL, okS)
    \/ \E id \in StudentIds, lecture \in Lectures, okL \in BOOLEAN :
          LMobileMark(id, lecture, okL)
    \/ \E lecture \in Lectures, okL \in BOOLEAN : LAppSweep(lecture, okL)
    \/ \E lecture \in Lectures, failed \in SUBSET StudentIds : LMainSweep(lecture, failed)
    \/ LTick



(***************************************************************************)
(* Spec: the session engine. The worker thread runs attendance_system.main *)
(* (started by app.start_script); request threads run app.stop_script and  *)
(* mobile_routes.mobile_recognize beside it. A thread's step is atomic up  *)
(* to its next load or save of attendance_records.json; the frame source,  *)
(* the liveness gate and the matcher give their results as inputs.         *)
(***************************************************************************)
ATTENDANCE_DURATION == 300

\* frame_counter % 30: the cooldown cleanup period
CleanupEveryFrames == 30

\* time.sleep(5) of stop_script
StopSleep == 5

\* bound: frames the worker reads in one session
MaxFrames == 3

\* bound: the clock of Spec stops here
MaxClock == 600

\* bound: requests to /mobile_recognize in a run
MaxMobile == 1

\* seconds the clock may advance by in one step
TickSteps == {300}

\* the matched ids of one processed frame, in detection order
FrameFaces == {<<>>, <<"S1">>, <<"S2">>, <<"S3">>, <<"S1", "S2">>}

\* session.get('lecture', '') or session.get('selected_subject', '')
StopLectures == {"L1", ""}

\* the students of the year the curriculum gives the lecture
Cohort(lecture) ==
    {s \in DOMAIN students : students[s].year = get_subject_year(lecture)}

InitHist ==
    [started |-> FALSE, seen |-> {}, fresh |-> FALSE, clean |-> FALSE, mobiles |-> 0,
     donePresent |-> {}, stale |-> {}, inflight |-> {}, cap |-> "none",
     key |-> <<"none", "none">>]

InitFiles ==
    /\ records = << >>
    /\ students = InitStudents
    /\ clock = 0
    /\ today = "D1"
    /\ current_teacher = "L1"

InitSessionVars ==
    /\ running = FALSE
    /\ absence_marked = FALSE
    /\ wpc = "off"
    /\ frame_counter = 0
    /\ start_time = 0
    /\ attendance_active = FALSE
    /\ recently_recognized = << >>
    /\ current_lecture = "L1"
    /\ wfaces = << >>
    /\ wtargets = << >>
    /\ wrec = << >>
    /\ wnow = 0
    /\ mpc = "idle" /\ mid = "none" /\ mrec = << >> /\ mnow = 0
    /\ spc = "idle" /\ slecture = "" /\ srec = << >> /\ snow = 0 /\ stopAt = 0
    /\ hist = InitHist

\* get_current_lecture: teacher_data.get('lecture', 'Default')
get_current_lecture == current_teacher

\* app.start_script (lines 2259-2271): sets running and spawns the worker.
\* A run of Spec follows one session: the first start request is taken, and
\* no second one after the worker has ended.
StartScript ==
    /\ ~running
    /\ wpc = "off"
    /\ ~hist.started
    /\ running' = TRUE
    /\ wpc' = "init"
    /\ hist' = [hist EXCEPT !.started = TRUE]
    /\ UNCHANGED <<fileVars, lastCall, toolVars, absence_marked, frame_counter, start_time,
                   attendance_active, recently_recognized, current_lecture, wfaces,
                   wtargets, wrec, wnow, mobileVars, stopVars>>

\* main, lines 484-547: camera, encodings, lecture, session state.
\* camOk: cap.isOpened(); encOk: EncodeFile.p loads
WInit(camOk, encOk) ==
    /\ wpc = "init"
    /\ IF camOk /\ encOk
       THEN /\ current_lecture' = get_current_lecture
            /\ absence_marked' = FALSE
            /\ attendance_active' = TRUE
            /\ start_time' = clock
            /\ recently_recognized' = << >>
            /\ frame_counter' = 0
            /\ wpc' = "top"
            /\ hist' = [hist EXCEPT
                   !.seen = {},
                   !.stale = {},
                   !.fresh = /\ Key(today, get_current_lecture) \notin DOMAIN records
                             /\ mpc = "idle" /\ spc = "idle",
                   !.clean = TRUE,
                   !.cap = "open",
                   !.key = Key(today, get_current_lecture)]
            /\ UNCHANGED running
       ELSE /\ running' = FALSE
            /\ wpc' = "off"
            /\ hist' = [hist EXCEPT !.cap = IF camOk THEN "released" ELSE "none"]
            /\ UNCHANGED <<current_lecture, absence_marked, attendance_active,
                           start_time, recently_recognized, frame_counter>>
    /\ UNCHANGED <<fileVars, lastCall, toolVars, wfaces, wtargets, wrec, wnow, mobileVars, stopVars>>

\* main, lines 488-502: the camera has opened, EncodeFile.p is missing and
\* train_encodings (line 502, inside no try block) raises; the exception
\* leaves main without cap.release() and run_attendance_system clears running
\* (app.py lines 2265-2268)
WInitRaise ==
    /\ wpc = "init"
    /\ running' = FALSE
    /\ wpc' = "off"
    /\ hist' = [hist EXCEPT !.cap = "open"]
    /\ UNCHANGED <<fileVars, lastCall, toolVars, absence_marked, frame_counter, start_time,
                   attendance_active, recently_recognized, current_lecture, wfaces,
                   wtargets, wrec, wnow, mobileVars, stopVars>>

\* line 550 false, then the finally clause (lines 784-786)
WExit ==
    /\ wpc = "top"
    /\ ~running
    /\ wpc' = "off"
    /\ running' = FALSE
    /\ hist' = [hist EXCEPT !.cap = "released"]
    /\ UNCHANGED <<fileVars, lastCall, toolVars, absence_marked, frame_counter, start_time,
                   attendance_active, recently_recognized, current_lecture, wfaces,
                   wtargets, wrec, wnow, mobileVars, stopVars>>

\* lines 551-553: cap.read() gives no frame; the worker sleeps 0.01 s
WReadFail ==
    /\ wpc = "top"
    /\ running
    /\ wpc' = "wait"
    /\ UNCHANGED <<fileVars, lastCall, toolVars, running, absence_marked, frame_counter,
                   start_time, attendance_active, recently_recognized, current_lecture,
                   wfaces, wtargets, wrec, wnow, mobileVars, stopVars, hist>>

\* line 554: continue, back to the test of line 550; the elapsed time of
\* lines 558-559 has not been looked at
WReadRetry ==
    /\ wpc = "wait"
    /\ wpc' = "top"
    /\ UNCHANGED <<fileVars, lastCall, toolVars, running, absence_marked, frame_counter,
                   start_time, attendance_active, recently_recognized, current_lecture,
                   wfaces, wtargets, wrec, wnow, mobileVars, stopVars, hist>>

\* lines 551-620: a frame is read; the clock is evaluated; on an even frame
\* of an open window the liveness verdict and the matched faces come in
WFrame(is_real, faces) ==
    /\ wpc = "top"
    /\ running
    /\ frame_counter < MaxFrames
    /\ frame_counter' = frame_counter + 1
    /\ attendance_active' = (clock - start_time < ATTENDANCE_DURATION)
    /\ LET processed == attendance_active' /\ frame_counter' % 2 = 0 /\ is_real
       IN  /\ wfaces' = IF processed THEN faces ELSE << >>
           /\ wpc' = IF processed /\ faces # << >> THEN "face" ELSE "tail"
           /\ hist' = IF processed THEN [hist EXCEPT !.seen = @ \cup SetOf(faces)]
                      ELSE hist
    /\ UNCHANGED <<fileVars, lastCall, toolVars, running, absence_marked, start_time,
                   recently_recognized, current_lecture, wtargets, wrec, wnow,
                   mobileVars, stopVars>>

\* lines 551-625 on a frame the window processes, when a call outside the
\* inner try blocks raises (cv2.resize, face_locations, face_encodings,
\* face_distance): the exception leaves the while loop to the except clause
\* of lines 780-783, and the finally clause (lines 784-786) clears running
WFrameRaise ==
    /\ wpc = "top"
    /\ running
    /\ frame_counter < MaxFrames
    /\ frame_counter' = frame_counter + 1
    /\ attendance_active' = (clock - start_time < ATTENDANCE_DURATION)
    /\ attendance_active' /\ frame_counter' % 2 = 0
    /\ wpc' = "off"
    /\ running' = FALSE
    /\ hist' = [hist EXCEPT !.cap = "released"]
    /\ UNCHANGED <<fileVars, lastCall, toolVars, absence_marked, start_time,
                   recently_recognized, current_lecture, wfaces, wtargets, wrec, wnow,
                   mobileVars, stopVars>>

\* after a face is handled: the next face, or the rest of the iteration
AfterFace(rest) == IF rest = << >> THEN "tail" ELSE "face"

\* lines 647-691 for the first face left: cooldown, roster lookup, lecture and
\* year check; a face that passes enters update_attendance_in_database, which
\* takes its timestamps and loads the ledger (lines 260-267)
WFace ==
    /\ wpc = "face"
    /\ LET student_id == Head(wfaces)
           suppressed == Suppressed(recently_recognized, student_id, clock)
           known == student_id \in DOMAIN students
           lecture == get_current_lecture
           subject_year == get_subject_year(lecture)
           marks == /\ ~suppressed /\ known /\ subject_year # "none"
                    /\ students[student_id].year = subject_year
       IN  /\ recently_recognized' =
                 IF suppressed THEN recently_recognized
                 ELSE Remember(recently_recognized, student_id, clock)
           /\ current_lecture' = IF ~suppressed /\ known THEN lecture ELSE current_lecture
           /\ IF marks
              THEN /\ wrec' = records
                   /\ wnow' = clock
                   /\ wpc' = "psave"
                   /\ UNCHANGED wfaces
              ELSE /\ wfaces' = Tail(wfaces)
                   /\ wpc' = AfterFace(Tail(wfaces))
                   /\ UNCHANGED <<wrec, wnow>>
    /\ UNCHANGED <<fileVars, lastCall, toolVars, running, absence_marked, frame_counter,
                   start_time, attendance_active, wtargets, mobileVars, stopVars, hist>>

\* update_attendance_in_database(.., 'Present'), lines 269-316: the entry is
\* changed in the loaded copy and the copy is written back; then the roster
WPresentSave(okL) ==
    /\ wpc = "psave"
    /\ LET student_id == Head(wfaces)
           key == Key(today, current_lecture)
           rec == GetRec(wrec, key, wnow)
       IN  /\ records' = IF okL
                         THEN PutRec(wrec, key, UpdateRec(rec, student_id, "Present", wnow))
                         ELSE records
           /\ students' = UpdateStudents(students, student_id, "Present",
                                         InList(student_id, rec.present))
           /\ hist' = [hist EXCEPT
                  !.clean = @ /\ okL,
                  !.donePresent = IF okL THEN @ \cup {student_id} ELSE @]
    /\ wfaces' = Tail(wfaces)
    /\ wpc' = AfterFace(Tail(wfaces))
    /\ wrec' = << >>
    /\ wnow' = 0
    /\ UNCHANGED <<clock, today, current_teacher, lastCall, toolVars, running, absence_marked,
                   frame_counter, start_time, attendance_active, recently_recognized,
                   current_lecture, wtargets, mobileVars, stopVars>>

CleanupCooldownsEarly(rr, now) ==
    \* mutant: the pass removes the entries half a cooldown old
    [k \in {i \in DOMAIN rr : now - rr[i] < recognition_cooldown \div 2} |-> rr[k]]

\* the dict comprehension of lines 734-735
CleanupCooldowns(rr, now) ==
    [k \in {i \in DOMAIN rr : now - rr[i] < recognition_cooldown * 2} |-> rr[k]]

\* lines 731-755: cooldown cleanup; then, once the window has closed and
\* absence_marked is not set, the flag is set and the sweep takes the roster
\* and its snapshot of the present list
WTail ==
    /\ wpc = "tail"
    /\ recently_recognized' =
          IF frame_counter % CleanupEveryFrames = 0
          THEN CleanupCooldowns(recently_recognized, clock)
          ELSE recently_recognized
    /\ IF ~attendance_active /\ ~absence_marked
       THEN LET key == Key(today, current_lecture)
                present_students ==
                    IF key \in DOMAIN records THEN SetOf(records[key].present) ELSE {}
                targets == IF get_subject_year(current_lecture) = "none" THEN << >>
                           ELSE SweepTargets(students, current_lecture, present_students)
            IN  /\ absence_marked' = TRUE
                /\ wtargets' = targets
                /\ wpc' = IF targets = << >> THEN "top" ELSE "sweep"
       ELSE /\ wpc' = "top"
            /\ UNCHANGED <<absence_marked, wtargets>>
    /\ UNCHANGED <<fileVars, lastCall, toolVars, running, frame_counter, start_time,
                   attendance_active, current_lecture, wfaces, wrec, wnow,
                   mobileVars, stopVars, hist>>

\* line 764 for the first target left: update_attendance_in_database(..,
\* 'Absent') takes its timestamps and loads the ledger
WSweepLoad ==
    /\ wpc = "sweep"
    /\ wrec' = records
    /\ wnow' = clock
    /\ wpc' = "ssave"
    /\ LET key == Key(today, current_lecture)
           sid == Head(wtargets)
       IN  hist' = IF InList(sid, GetRec(records, key, clock).present)
                   THEN [hist EXCEPT !.stale = @ \cup {sid}] ELSE hist
    /\ UNCHANGED <<fileVars, lastCall, toolVars, running, absence_marked, frame_counter,
                   start_time, attendance_active, recently_recognized,
                   current_lecture, wfaces, wtargets, mobileVars, stopVars>>

\* update_attendance_in_database(.., 'Absent'), lines 269-316
WSweepSave(okL) ==
    /\ wpc = "ssave"
    /\ LET sid == Head(wtargets)
           key == Key(today, current_lecture)
           rec == GetRec(wrec, key, wnow)
       IN  /\ records' = IF okL
                         THEN PutRec(wrec, key, UpdateRec(rec, sid, "Absent", wnow))
                         ELSE records
           /\ students' = UpdateStudents(students, sid, "Absent",
                                         InList(sid, rec.present))
           /\ hist' = [hist EXCEPT !.clean = @ /\ okL]
    /\ wtargets' = Tail(wtargets)
    /\ wpc' = IF Tail(wtargets) = << >> THEN "top" ELSE "sweep"
    /\ wrec' = << >>
    /\ wnow' = 0
    /\ UNCHANGED <<clock, today, current_teacher, lastCall, toolVars, running, absence_marked,
                   frame_counter, start_time, attendance_active, recently_recognized,
                   current_lecture, wfaces, mobileVars, stopVars>>

\* mobile_recognize -> mark_attendance(student_id, lecture), lines 175-194:
\* the ledger is loaded; an id already present returns at once
MobileLoad(student_id) ==
    /\ mpc = "idle"
    /\ hist.mobiles < MaxMobile
    /\ LET key == Key(today, current_teacher)
       IN  IF MobileWrites(GetRec(records, key, clock), student_id)
           THEN /\ mpc' = "loaded"
                /\ mid' = student_id
                /\ mrec' = records
                /\ mnow' = clock
           ELSE UNCHANGED <<mpc, mid, mrec, mnow>>
    /\ hist' = [hist EXCEPT !.mobiles = @ + 1]
    /\ UNCHANGED <<fileVars, lastCall, toolVars, running, absence_marked, workerVars, stopVars>>

\* mark_attendance, lines 196-209
MobileSave(okL) ==
    /\ mpc = "loaded"
    /\ LET key == Key(today, current_teacher)
           rec == GetRec(mrec, key, mnow)
       IN  records' = IF okL THEN PutRec(mrec, key, MobileRec(rec, mid)) ELSE records
    /\ hist' = [hist EXCEPT
           !.clean = FALSE,
           !.donePresent = IF okL THEN @ \cup {mid} ELSE @]
    /\ mpc' = "idle"
    /\ mid' = "none"
    /\ mrec' = << >>
    /\ mnow' = 0
    /\ UNCHANGED <<students, clock, today, current_teacher, lastCall, toolVars, running,
                   absence_marked, workerVars, stopVars>>

\* app.stop_script, lines 2278-2288: clears running; with a lecture in the
\* web session it goes to sleep before the absentee marking.
\* hist.inflight: the id whose update_attendance_in_database(.., 'Present')
\* the worker is in at this moment
StopScript(lecture) ==
    /\ spc = "idle"
    /\ running
    /\ running' = FALSE
    /\ IF lecture # ""
       THEN /\ spc' = "sleep"
            /\ slecture' = lecture
            /\ stopAt' = clock
       ELSE UNCHANGED <<spc, slecture, stopAt>>
    /\ hist' = [hist EXCEPT !.inflight = IF wpc = "psave" THEN {Head(wfaces)} ELSE {}]
    /\ UNCHANGED <<fileVars, lastCall, toolVars, absence_marked, workerVars, mobileVars,
                   srec, snow>>

\* mark_absent_for_unmarked_students, lines 2397-2418: after the sleep, the
\* roster and the ledger are loaded; with nobody enrolled it returns
StopLoad ==
    /\ spc = "sleep"
    /\ clock >= stopAt + StopSleep
    /\ IF Enrolled(students, slecture) = << >>
       THEN /\ spc' = "idle"
            /\ slecture' = ""
            /\ UNCHANGED <<srec, snow>>
       ELSE /\ spc' = "loaded"
            /\ srec' = records
            /\ snow' = clock
            /\ UNCHANGED slecture
    /\ UNCHANGED <<fileVars, lastCall, toolVars, running, absence_marked, workerVars,
                   mobileVars, stopAt, hist>>

\* mark_absent_for_unmarked_students, lines 2419-2434
StopSave(okL) ==
    /\ spc = "loaded"
    /\ LET key == Key(today, slecture)
           rec == GetRec(srec, key, snow)
       IN  records' = IF okL
                      THEN PutRec(srec, key, AppSweepRec(rec, Enrolled(students, slecture)))
                      ELSE records
    /\ hist' = [hist EXCEPT !.clean = FALSE]
    /\ spc' = "idle"
    /\ slecture' = ""
    /\ srec' = << >>
    /\ snow' = 0
    /\ UNCHANGED <<students, clock, today, current_teacher, lastCall, toolVars, running,
                   absence_marked, workerVars, mobileVars, stopAt>>

\* app.select_subject, POST (lines 1035-1054): the teacher selects another
\* subject and current_teacher.json is rewritten with it
SelectSubject(subject) ==
    /\ subject # current_teacher
    /\ current_teacher' = subject
    /\ UNCHANGED <<records, students, clock, today, lastCall, toolVars, sessionVars>>

\* the calendar date of datetime.now() rolls over.  update_attendance_in_database
\* takes today at line 260, with the load of the ledger, so the roll is not
\* taken between the load and the write of one call
Midnight ==
    /\ today = "D1"
    /\ wpc \notin {"psave", "ssave"}
    /\ today' = "D2"
    /\ UNCHANGED <<records, students, clock, current_teacher, lastCall, toolVars, sessionVars>>

\* the wall clock advances
Tick(d) ==
    /\ clock + d <= MaxClock
    /\ clock' = clock + d
    /\ UNCHANGED <<records, students, today, current_teacher, lastCall, toolVars, sessionVars>>

(***************************************************************************)
(* SpecWrite: atomic_write_json(ATTENDANCE_RECORDS_JSON, data), step by    *)
(* step (attendance_system lines 211-224, attendance_core lines 43-57),    *)
(* with a process that can die between any two steps and a reader          *)
(* (load_attendance_records) that can load the file at any moment.         *)
(***************************************************************************)
\* bound: ledger writes in a run
MaxWrites == 2

\* os.rename replaces an existing destination on POSIX; on Windows it raises
\* FileExistsError when the destination exists
Platforms == {"posix", "windows"}

Missing == [state |-> "missing", ver |-> 0]

Full(v) == [state |-> "full", ver |-> v]

Partial(v) == [state |-> "partial", ver |-> v]

NoTmp == [state |-> "none", ver |-> 0]

\* save_attendance_records calls atomic_write_json with the next data
AwBegin ==
    /\ apc = "idle"
    /\ aver < MaxWrites
    /\ aver' = aver + 1
    /\ aprev' = ledgerFile
    /\ apc' = "mkstemp"
    /\ UNCHANGED <<fileVars, lastCall, sessionVars, platform, ledgerFile, tmpFile,
                   lastRead, dhist, matchVars,
                   gateVars, startVars,
                   pubVars>>

\* os.makedirs, tempfile.mkstemp(dir=dirpath): outside the try, a failure
\* leaves no file and is swallowed by save_attendance_records
AwMkstemp(ok) ==
    /\ apc = "mkstemp"
    /\ IF ok
       THEN /\ tmpFile' = [state |-> "empty", ver |-> aver]
            /\ apc' = "dump"
       ELSE /\ apc' = "idle"
            /\ UNCHANGED tmpFile
    /\ UNCHANGED <<fileVars, lastCall, sessionVars, platform, ledgerFile, aver, aprev,
                   lastRead, dhist, matchVars,
                   gateVars, startVars,
                   pubVars>>

\* json.dump(data, f, ...): the text goes through the file buffer, so a part
\* of it can be in the temporary file before the flush
AwDump(ok) ==
    /\ apc = "dump"
    /\ IF ok
       THEN /\ tmpFile' = Partial(aver)
            /\ apc' = "sync"
       ELSE /\ apc' = "cleanup"
            /\ UNCHANGED tmpFile
    /\ UNCHANGED <<fileVars, lastCall, sessionVars, platform, ledgerFile, aver, aprev,
                   lastRead, dhist, matchVars,
                   gateVars, startVars,
                   pubVars>>

\* f.flush(); os.fsync(f.fileno()); the with block closes the file
AwSync(ok) ==
    /\ apc = "sync"
    /\ IF ok
       THEN /\ tmpFile' = Full(aver)
            /\ apc' = "move"
       ELSE /\ apc' = "cleanup"
            /\ UNCHANGED tmpFile
    /\ UNCHANGED <<fileVars, lastCall, sessionVars, platform, ledgerFile, aver, aprev,
                   lastRead, dhist, matchVars,
                   gateVars, startVars,
                   pubVars>>

\* shutil.move(tmp_path, path): os.rename(src, real_dst); on OSError, for a
\* regular file, copy_function(src, real_dst) and then os.unlink(src). The
\* copy opens the destination for writing, which truncates it.
AwMove(ok) ==
    /\ apc = "move"
    /\ IF ~ok
       THEN /\ apc' = "cleanup"
            /\ UNCHANGED <<ledgerFile, tmpFile>>
       ELSE IF platform = "posix" \/ ledgerFile.state = "missing"
       THEN /\ ledgerFile' = Full(aver)
            /\ tmpFile' = NoTmp
            /\ apc' = "idle"
       ELSE /\ ledgerFile' = Partial(aver)
            /\ apc' = "copy"
            /\ UNCHANGED tmpFile
    /\ UNCHANGED <<fileVars, lastCall, sessionVars, platform, aver, aprev,
                   lastRead, dhist, matchVars,
                   gateVars, startVars,
                   pubVars>>

\* the rest of shutil.copy2: the content is copied into the destination
AwCopy(ok) ==
    /\ apc = "copy"
    /\ IF ok
       THEN /\ ledgerFile' = Full(aver)
            /\ apc' = "unlink"
       ELSE /\ apc' = "cleanup"
            /\ UNCHANGED ledgerFile
    /\ UNCHANGED <<fileVars, lastCall, sessionVars, platform, tmpFile, aver, aprev,
                   lastRead, dhist, matchVars,
                   gateVars, startVars,
                   pubVars>>

\* os.unlink(src) at the end of shutil.move
AwUnlink ==
    /\ apc = "unlink"
    /\ tmpFile' = NoTmp
    /\ apc' = "idle"
    /\ UNCHANGED <<fileVars, lastCall, sessionVars, platform, ledgerFile, aver, aprev,
                   lastRead, dhist, matchVars,
                   gateVars, startVars,
                   pubVars>>

\* except Exception: remove the temporary file if it exists, raise (the
\* caller prints the error and goes on)
AwCleanup ==
    /\ apc = "cleanup"
    /\ tmpFile' = NoTmp
    /\ apc' = "idle"
    /\ UNCHANGED <<fileVars, lastCall, sessionVars, platform, ledgerFile, aver, aprev,
                   lastRead, dhist, matchVars,
                   gateVars, startVars,
                   pubVars>>

\* the process dies inside atomic_write_json: no further step of the write
\* runs, the files stay as they are
AwCrash ==
    /\ apc \notin {"idle", "down"}
    /\ apc' = "down"
    /\ UNCHANGED <<fileVars, lastCall, sessionVars, platform, ledgerFile, tmpFile,
                   aver, aprev, lastRead, dhist, matchVars,
                   gateVars, startVars,
                   pubVars>>

\* the program is started again
AwRestart ==
    /\ apc = "down"
    /\ apc' = "idle"
    /\ UNCHANGED <<fileVars, lastCall, sessionVars, platform, ledgerFile, tmpFile,
                   aver, aprev, lastRead, dhist, matchVars,
                   gateVars, startVars,
                   pubVars>>

\* load_attendance_records (lines 38-46): json.load of the file; a missing
\* file and a file that does not parse both give {'records': {}}
AwRead ==
    /\ lastRead' = CASE ledgerFile.state = "full" -> [kind |-> "version", ver |-> ledgerFile.ver]
                     [] ledgerFile.state = "missing" -> [kind |-> "default", ver |-> 0]
                     [] OTHER -> [kind |-> "unparsable", ver |-> ledgerFile.ver]
    /\ UNCHANGED <<fileVars, lastCall, sessionVars, platform, ledgerFile, tmpFile,
                   apc, aver, aprev, dhist, matchVars,
                   gateVars, startVars,
                   pubVars>>

NextWrite ==
    \/ AwBegin
    \/ \E ok \in BOOLEAN : AwMkstemp(ok)
    \/ \E ok \in BOOLEAN : AwDump(ok)
    \/ \E ok \in BOOLEAN : AwSync(ok)
    \/ \E ok \in BOOLEAN : AwMove(ok)
    \/ \E ok \in BOOLEAN : AwCopy(ok)
    \/ AwUnlink
    \/ AwCleanup
    \/ AwCrash
    \/ AwRestart
    \/ AwRead

(***************************************************************************)
(* SpecDedup: the cooldown cache of attendance_system.main alone. Every    *)
(* loop iteration counts a frame; on an even frame a matched id goes       *)
(* through the cooldown test (lines 647-660); every 30th frame the cache   *)
(* is cleaned (lines 731-735).                                             *)
(***************************************************************************)
\* bound: frames of a run of SpecDedup
MaxDedupFrames == 32

\* bound: the clock of SpecDedup stops here
MaxDedupClock == 24

\* seconds the clock of SpecDedup may advance by in one step
DedupTickSteps == {2, 8}

\* the matched id of a frame, "none" for a frame without a match
DedupFaces == {"none", "S1", "S2"}

NoEvent ==
    [id |-> "none", now |-> 0, emitted |-> FALSE, prev |-> -1, seen |-> -1, plain |-> FALSE]

\* no cleanup pass yet
NoPass == [at |-> 0, before |-> << >>, after |-> << >>]

\* twin: the cooldown cache of a worker that takes the same frames at the
\* same times and never runs the cleanup pass; gc: the last cleanup pass
InitDhist == [lastEmit |-> << >>, last |-> NoEvent, twin |-> << >>, gc |-> NoPass]

DFrame(face) ==
    /\ frame_counter < MaxDedupFrames
    /\ frame_counter' = frame_counter + 1
    /\ LET processed == frame_counter' % 2 = 0 /\ face # "none"
           suppressed == Suppressed(recently_recognized, face, clock)
           rr == IF processed /\ ~suppressed
                 THEN Remember(recently_recognized, face, clock)
                 ELSE recently_recognized
           cleaned == IF frame_counter' % CleanupEveryFrames = 0
                      THEN CleanupCooldowns(rr, clock) ELSE rr
           twinSuppressed == Suppressed(dhist.twin, face, clock)
           gc == IF frame_counter' % CleanupEveryFrames = 0
                 THEN [at |-> clock, before |-> rr, after |-> cleaned]
                 ELSE dhist.gc
       IN  /\ recently_recognized' = cleaned
           /\ dhist' =
                 IF ~processed THEN [dhist EXCEPT !.gc = gc]
                 ELSE [lastEmit |-> IF suppressed THEN dhist.lastEmit
                                    ELSE Remember(dhist.lastEmit, face, clock),
                       last |-> [id |-> face, now |-> clock, emitted |-> ~suppressed,
                                 prev |-> IF face \in DOMAIN dhist.lastEmit
                                          THEN dhist.lastEmit[face] ELSE -1,
                                 seen |-> IF face \in DOMAIN cleaned
                                          THEN cleaned[face] ELSE -1,
                                 plain |-> ~twinSuppressed],
                       twin |-> IF twinSuppressed THEN dhist.twin
                                ELSE Remember(dhist.twin, face, clock),
                       gc |-> gc]
    /\ UNCHANGED <<fileVars, lastCall, running, absence_marked, wpc, start_time,
                   attendance_active, current_lecture, wfaces, wtargets, wrec, wnow,
                   mobileVars, stopVars, hist, writeVars, matchVars,
                   gateVars, startVars,
                   pubVars>>

DTick(d) ==
    /\ clock + d <= MaxDedupClock
    /\ clock' = clock + d
    /\ UNCHANGED <<records, students, today, current_teacher, lastCall, sessionVars,
                   toolVars>>

NextDedup ==
    \/ \E face \in DedupFaces : DFrame(face)
    \/ \E d \in DedupTickSteps : DTick(d)

(***************************************************************************)
(* SpecMatch: the identity matcher. attendance_system.main lines 622-645   *)
(* and attendance_core.recognize_face_and_mark_attendance lines 310-375.   *)
(* Distances are in hundredths; the encodings of the known list enter      *)
(* through the distances face_distance gives for them.                     *)
(***************************************************************************)
\* bound: length of the known lists
MaxKnown == 3

\* distances a known encoding can be at
Distances == {50, 65, 66, 90}

\* if distance <= 0.65 (attendance_system line 636)
MainTolerance == 65

\* TOLERANCE = 0.65 (attendance_core line 364)
TOLERANCE == 65

RECURSIVE ArgMinLastScan(_, _, _)
ArgMinLastScan(d, i, best) ==
    \* mutant: a later element at the same distance replaces the best so far
    IF i > Len(d) THEN best
    ELSE ArgMinLastScan(d, i + 1, IF d[i] <= d[best] THEN i ELSE best)

RECURSIVE ArgMinScan(_, _, _)
\* np.argmin: one pass, an element replaces the best so far only when it is
\* strictly smaller, so the first of equal minima is returned
ArgMinScan(d, i, best) ==
    IF i > Len(d) THEN best
    ELSE ArgMinScan(d, i + 1, IF d[i] < d[best] THEN i ELSE best)

NoResult == [path |-> "none", status |-> "none", id |-> "none", index |-> 0, computed |-> FALSE]

\* attendance_system.main, lines 623-645, for one face
MainMatch(dists, ids) ==
    IF Len(dists) = 0
    THEN [path |-> "main", status |-> "skipped", id |-> "none", index |-> 0, computed |-> FALSE]
    ELSE LET match_index == ArgMinScan(dists, 2, 1)
             distance == dists[match_index]
             candidate_id == IF match_index <= Len(ids) THEN ids[match_index] ELSE "none"
         IN  IF distance <= MainTolerance
             THEN [path |-> "main", status |-> "match", id |-> candidate_id,
                   index |-> match_index, computed |-> TRUE]
             ELSE [path |-> "main", status |-> "unknown", id |-> "none",
                   index |-> match_index, computed |-> TRUE]

\* attendance_core.recognize_face_and_mark_attendance, lines 310-375
CoreMatch(dists, ids) ==
    IF Len(dists) = 0
    THEN [path |-> "core", status |-> "error", id |-> "none", index |-> 0, computed |-> FALSE]
    ELSE LET match_index == ArgMinScan(dists, 2, 1)
             distance == dists[match_index]
         IN  IF distance > TOLERANCE
             THEN [path |-> "core", status |-> "not_found", id |-> "none",
                   index |-> match_index, computed |-> TRUE]
             ELSE [path |-> "core", status |-> "match", id |-> ids[match_index],
                   index |-> match_index, computed |-> TRUE]

\* studentIds for n images: the file name without its extension, so two
\* images of one student (S1.jpg, S1.png) give the same id twice
ImageIds(n) == [i \in 1..n |-> RosterOrder[((i - 1) % Len(RosterOrder)) + 1]]

\* the lists EncodeFile.p can hold: train_encodings keeps an id per image and
\* an encoding per image with a face, so there are at least as many ids
KnownInputs ==
    {<<d, ImageIds(n)>> :
        d \in UNION {[1..k -> Distances] : k \in 0..MaxKnown}, n \in 0..MaxKnown}

MatchMainFace(dists, ids) ==
    /\ Len(ids) >= Len(dists)
    /\ mknown' = ids
    /\ mdist' = dists
    /\ mresult' = MainMatch(dists, ids)
    /\ UNCHANGED <<fileVars, lastCall, sessionVars, writeVars, dhist, gateVars,
                   startVars,
                   pubVars>>

MatchCoreFace(dists, ids) ==
    /\ Len(ids) >= Len(dists)
    /\ mknown' = ids
    /\ mdist' = dists
    /\ mresult' = CoreMatch(dists, ids)
    /\ UNCHANGED <<fileVars, lastCall, sessionVars, writeVars, dhist, gateVars,
                   startVars,
                   pubVars>>

NextMatch ==
    \/ \E in \in KnownInputs : MatchMainFace(in[1], in[2])
    \/ \E in \in KnownInputs : MatchCoreFace(in[1], in[2])

(***************************************************************************)
(* SpecLiveness: the liveness gate of the worker (attendance_system lines  *)
(* 514-602) on frames of an open attendance window: the classifier load,   *)
(* detect_spoofing on the confidences the classifier gives, and the        *)
(* sliding window of verdicts kept in shared_data. Confidences are in      *)
(* 1/100, times in 1/10 s.                                                 *)
(***************************************************************************)
\* bound: frames the gate sees in a run
MaxGateFrames == 36

\* bound: the gate's clock stops here (1/10 s)
MaxGateClock == 60

\* frame_counter % 2 == 0 (line 578)
ProcessEvery == 2

\* frame_counter % 6 == 0 (line 582)
SpoofEvery == 6

\* current_time - last_spoof_check >= 0.5 (line 591), in 1/10 s
SpoofGap == 5

\* len(recent_spoof_results) > 5 (line 594)
WindowCapacity == 5

\* max_fake_conf > 0.7 (line 427), in 1/100
FakeConfMin == 70

\* max_real_conf < 0.3 (line 427), in 1/100
RealConfMax == 30

\* the greatest confidence of a 'real' box and of a 'fake' box in one frame
RealConfs == {0, 29, 30, 90}
FakeConfs == {0, 70, 71, 95}

\* 1/10 s between two frames the worker reads
FrameGaps == {1, 3}

\* detect_spoofing (lines 407-434) with a loaded model; raises: the model
\* call fails and the except clause answers
detect_spoofing(max_real_conf, max_fake_conf, raises) ==
    IF raises THEN TRUE
    ELSE IF max_real_conf = 0 /\ max_fake_conf = 0 THEN TRUE
    ELSE IF max_fake_conf > FakeConfMin /\ max_real_conf < RealConfMax THEN FALSE
    ELSE TRUE

\* sum(1 for x in results if x)
RECURSIVE RealCount(_)
RealCount(results) ==
    IF results = << >> THEN 0
    ELSE (IF Head(results) THEN 1 ELSE 0) + RealCount(Tail(results))

\* lines 597-598: real_count >= len(results) // 2
Aggregate(results) == RealCount(results) >= Len(results) \div 2

\* list.append followed by pop(0) when longer than the capacity, on a list
ListAppendPop(results, x) ==
    LET appended == Append(results, x)
    IN  IF Len(appended) > WindowCapacity THEN Tail(appended) ELSE appended

\* lines 593-595 on shared_data, which app.py creates as
\* multiprocessing.Manager().dict() (app.py lines 2542-2543): indexing the
\* proxy returns a copy of the stored list, append and pop(0) act on that
\* copy, and nothing assigns the copy back, so the stored list stays as it is
ProxyAppendPop(stored, x) == stored

NoGate ==
    [processed |-> FALSE, checked |-> FALSE, aggregated |-> FALSE,
     verdict |-> TRUE, is_real |-> TRUE, offered |-> << >>, gate |-> TRUE,
     session |-> 1, ran |-> FALSE, first |-> FALSE]

InitGate ==
    /\ spoofModel = "unloaded"
    /\ glog = {}
    /\ gtime = 0
    /\ has_last_spoof_check = FALSE
    /\ last_spoof_check = 0
    /\ recent_spoof_results = << >>
    /\ ghist = NoGate

\* lines 514-521: the classifier load. loadOk: YOLO(path) returns a model
GLoad(loadOk) ==
    /\ spoofModel = "unloaded"
    /\ IF YOLO = "none"
       THEN /\ spoofModel' = "none"
            /\ UNCHANGED glog
       ELSE IF loadOk
       THEN /\ spoofModel' = "loaded"
            /\ glog' = glog \cup {"[INFO] Spoof detection model loaded"}
       ELSE /\ spoofModel' = "none"
            /\ glog' = glog \cup {"[WARN] Could not load YOLO model"}
    /\ UNCHANGED <<fileVars, lastCall, sessionVars, writeVars, dhist, matchVars, startVars,
                   YOLO, gtime, has_last_spoof_check, last_spoof_check,
                   recent_spoof_results, ghist,
                   pubVars>>

\* lines 551-602 for one frame read dt after the last one: the counter, and
\* on a frame the window processes the verdict is_real of the gate.
\* ghist.offered is the list of the last verdicts given to append (line 593),
\* kept as a list keeps them; ghist.gate is is_real of the last frame on
\* which the classifier ran; ghist.first tells that the classifier ran on
\* this frame for the first time in the session
GFrame(dt, max_real_conf, max_fake_conf, raises) ==
    /\ spoofModel # "unloaded"
    /\ frame_counter < MaxGateFrames
    /\ gtime + dt <= MaxGateClock
    /\ frame_counter' = frame_counter + 1
    /\ gtime' = gtime + dt
    /\ LET processed == attendance_active /\ frame_counter' % ProcessEvery = 0
           checked == /\ processed /\ spoofModel # "none"
                      /\ frame_counter' % SpoofEvery = 0
           verdict == detect_spoofing(max_real_conf, max_fake_conf, raises)
           last == IF has_last_spoof_check THEN last_spoof_check ELSE gtime'
           aggregated == checked /\ gtime' - last >= SpoofGap
           stored == IF has_last_spoof_check THEN recent_spoof_results ELSE << >>
           results == ProxyAppendPop(stored, verdict)
       IN  /\ has_last_spoof_check' = (has_last_spoof_check \/ checked)
           /\ last_spoof_check' = IF aggregated THEN gtime'
                                  ELSE IF checked THEN last
                                  ELSE last_spoof_check
           /\ recent_spoof_results' = IF aggregated THEN results
                                      ELSE IF checked THEN stored
                                      ELSE recent_spoof_results
           /\ ghist' = [processed |-> processed,
                        checked |-> checked,
                        aggregated |-> aggregated,
                        verdict |-> IF checked THEN verdict ELSE TRUE,
                        is_real |-> IF aggregated THEN Aggregate(results)
                                    ELSE IF checked THEN verdict
                                    ELSE TRUE,
                        offered |-> IF aggregated
                                    THEN ListAppendPop(ghist.offered, verdict)
                                    ELSE ghist.offered,
                        gate |-> IF aggregated THEN Aggregate(results)
                                 ELSE IF checked THEN verdict
                                 ELSE ghist.gate,
                        session |-> ghist.session,
                        ran |-> (ghist.ran \/ checked),
                        first |-> (checked /\ ~ghist.ran)]
    /\ UNCHANGED <<fileVars, lastCall, running, absence_marked, wpc, start_time,
                   attendance_active, recently_recognized, current_lecture, wfaces,
                   wtargets, wrec, wnow, mobileVars, stopVars, hist, writeVars, dhist,
                   matchVars, startVars, YOLO, spoofModel, glog,
                   pubVars>>

\* bound: sessions of one process the gate is followed through
MaxSessions == 2

\* the session ends and /start calls main again in the same process (app.py
\* line 2264): main starts from line 484 with frame_counter = 0 (line 485),
\* loads the classifier again (lines 514-521) and makes a new cooldown cache
\* (line 547). Nothing in main or app.py removes or resets last_spoof_check
\* and recent_spoof_results in shared_data.
GNewSession ==
    /\ spoofModel # "unloaded"
    /\ ghist.session < MaxSessions
    /\ frame_counter' = 0
    /\ recently_recognized' = << >>
    /\ spoofModel' = "unloaded"
    /\ ghist' = [NoGate EXCEPT !.session = ghist.session + 1]
    /\ UNCHANGED <<fileVars, lastCall, running, absence_marked, wpc, start_time,
                   attendance_active, current_lecture, wfaces, wtargets, wrec, wnow,
                   mobileVars, stopVars, hist, writeVars, dhist, matchVars, startVars,
                   pubVars, YOLO, glog, gtime, has_last_spoof_check, last_spoof_check,
                   recent_spoof_results>>

NextLiveness ==
    \/ GNewSession
    \/ \E loadOk \in BOOLEAN : GLoad(loadOk)
    \/ \E dt \in FrameGaps, r \in RealConfs, f \in FakeConfs, raises \in BOOLEAN :
          GFrame(dt, r, f, raises)

(***************************************************************************)
(* SpecStart: the requests to /start and /stop and the worker threads they *)
(* start and end (app.py lines 2256-2294). Flask serves each request on a  *)
(* thread of its own (app.run, line 2496), so the test of line 2259 and    *)
(* the assignment of line 2260 of one request interleave with the other    *)
(* requests and with the workers. A worker is followed here only as far as *)
(* the flag is concerned: its setup, and its test of line 550.             *)
(***************************************************************************)
\* bound: requests to /start in a run
MaxStarts == 3

Requests == 1..MaxStarts

InitStart ==
    /\ starts = [r \in Requests |-> "idle"]
    /\ reply = [r \in Requests |-> "none"]
    /\ threads = [r \in Requests |-> "none"]
    /\ camera = TRUE

\* the thread runs run_attendance_system
Alive(t) == threads[t] \in {"init", "loop"}

\* start_script, line 2259: the flag is read; when it is set the request
\* answers 'Started' at once (line 2273)
StartTest(r) ==
    /\ starts[r] = "idle"
    /\ starts' = [starts EXCEPT ![r] = IF running THEN "done" ELSE "passed"]
    /\ reply' = [reply EXCEPT ![r] = IF running THEN "Started" ELSE @]
    /\ UNCHANGED <<fileVars, lastCall, sessionVars, writeVars, dhist, matchVars, gateVars,
                   threads, camera,
                   pubVars>>

\* start_script, lines 2260-2273: the flag is set, the thread is started
StartSpawn(r) ==
    /\ starts[r] = "passed"
    /\ running' = TRUE
    /\ threads' = [threads EXCEPT ![r] = "init"]
    /\ starts' = [starts EXCEPT ![r] = "done"]
    /\ reply' = [reply EXCEPT ![r] = "Started"]
    /\ UNCHANGED <<fileVars, lastCall, absence_marked, workerVars, mobileVars, stopVars,
                   hist, writeVars, dhist, matchVars, gateVars, camera,
                   pubVars>>

\* main, lines 484-547, in thread t. cap.isOpened() tells whether the camera
\* opens; encOk: the encodings load. If either fails, main clears the flag
\* and returns (lines 488-492, 508-512) and the finally clause of
\* run_attendance_system clears it too (line 2268)
RunInit(t, encOk) ==
    /\ threads[t] = "init"
    /\ IF camera /\ encOk
       THEN /\ threads' = [threads EXCEPT ![t] = "loop"]
            /\ absence_marked' = FALSE
            /\ UNCHANGED running
       ELSE /\ threads' = [threads EXCEPT ![t] = "ended"]
            /\ running' = FALSE
            /\ UNCHANGED absence_marked
    /\ UNCHANGED <<fileVars, lastCall, workerVars, mobileVars, stopVars, hist, writeVars,
                   dhist, matchVars, gateVars, starts, reply, camera,
                   pubVars>>

\* line 550 in thread t finds the flag cleared: the loop ends, and the
\* finally clauses clear the flag (lines 784-786, 2268)
RunExit(t) ==
    /\ threads[t] = "loop"
    /\ ~running
    /\ threads' = [threads EXCEPT ![t] = "ended"]
    /\ running' = FALSE
    /\ UNCHANGED <<fileVars, lastCall, absence_marked, workerVars, mobileVars, stopVars,
                   hist, writeVars, dhist, matchVars, gateVars, starts, reply, camera,
                   pubVars>>

\* the capture device is taken away (unplugged, opened by another program)
\* or comes back
CameraChange ==
    /\ camera' = ~camera
    /\ UNCHANGED <<fileVars, lastCall, sessionVars, writeVars, dhist, matchVars, gateVars,
                   starts, reply, threads,
                   pubVars>>

NextStart ==
    \/ \E r \in Requests : StartTest(r)
    \/ \E r \in Requests : StartSpawn(r)
    \/ \E t \in Requests, encOk \in BOOLEAN : RunInit(t, encOk)
    \/ \E t \in Requests : RunExit(t)
    \/ StopScript("")
    \/ CameraChange

(***************************************************************************)
(* SpecPublish: the frame publisher of the worker (attendance_system lines *)
(* 725-729) and one reader of /video_feed (app.py lines 2461-2473). Both   *)
(* work on shared_data, key by key, with no lock between them.             *)
(***************************************************************************)
\* bound: frames the worker publishes in a run
MaxPublishes == 3

\* bound: the publisher's clock stops here
MaxPubClock == 4

NoYield == [version |-> 0, frame |-> 0]

InitPublish ==
    /\ frame_jpeg = 0
    /\ frame_updated = 0
    /\ ptime = 1
    /\ ppc = "idle"
    /\ pframes = 0
    /\ rpc = "poll"
    /\ last_frame_time = 0
    /\ phist = [published |-> {}, yielded |-> {}, last |-> NoYield, twice |-> FALSE]

\* line 728: shared_data['frame_jpeg'] = jpg_buf.tobytes()
PubFrame ==
    /\ ppc = "idle"
    /\ pframes < MaxPublishes
    /\ pframes' = pframes + 1
    /\ frame_jpeg' = pframes + 1
    /\ ppc' = "frame"
    /\ UNCHANGED <<fileVars, lastCall, sessionVars, writeVars, dhist, matchVars, gateVars,
                   startVars, frame_updated, ptime, rpc, last_frame_time, phist>>

\* line 729: shared_data['frame_updated'] = time.time()
PubVersion ==
    /\ ppc = "frame"
    /\ frame_updated' = ptime
    /\ ppc' = "idle"
    /\ phist' = [phist EXCEPT !.published = @ \cup {[version |-> ptime, frame |-> frame_jpeg]}]
    /\ UNCHANGED <<fileVars, lastCall, sessionVars, writeVars, dhist, matchVars, gateVars,
                   startVars, frame_jpeg, ptime, pframes, rpc, last_frame_time>>

\* the clock of time.time() advances
PubTick ==
    /\ ptime < MaxPubClock
    /\ ptime' = ptime + 1
    /\ UNCHANGED <<fileVars, lastCall, sessionVars, writeVars, dhist, matchVars, gateVars,
                   startVars, frame_jpeg, frame_updated, ppc, pframes, rpc, last_frame_time,
                   phist>>

\* video_feed, lines 2465-2466: both keys are there and frame_updated is
\* greater than last_frame_time; if not, sleep and poll again (line 2473)
ReadTest ==
    /\ rpc = "poll"
    /\ frame_updated # 0
    /\ frame_updated > last_frame_time
    /\ rpc' = "newer"
    /\ UNCHANGED <<fileVars, lastCall, sessionVars, writeVars, dhist, matchVars, gateVars,
                   startVars, frame_jpeg, frame_updated, ptime, ppc, pframes,
                   last_frame_time, phist>>

\* line 2467: last_frame_time = shared_data['frame_updated'], read again
ReadVersion ==
    /\ rpc = "newer"
    /\ last_frame_time' = frame_updated
    /\ rpc' = "yield"
    /\ UNCHANGED <<fileVars, lastCall, sessionVars, writeVars, dhist, matchVars, gateVars,
                   startVars, frame_jpeg, frame_updated, ptime, ppc, pframes, phist>>

\* lines 2469-2471: the frame is read from shared_data and yielded
ReadYield ==
    /\ rpc = "yield"
    /\ phist' = [phist EXCEPT
           !.yielded = @ \cup {frame_jpeg},
           !.last = [version |-> last_frame_time, frame |-> frame_jpeg],
           !.twice = @ \/ frame_jpeg \in phist.yielded]
    /\ rpc' = "poll"
    /\ UNCHANGED <<fileVars, lastCall, sessionVars, writeVars, dhist, matchVars, gateVars,
                   startVars, frame_jpeg, frame_updated, ptime, ppc, pframes,
                   last_frame_time>>

NextPublish ==
    \/ PubFrame
    \/ PubVersion
    \/ PubTick
    \/ ReadTest
    \/ ReadVersion
    \/ ReadYield

(***************************************************************************)
(* Initial states and specifications.                                      *)
(***************************************************************************)
InitWriteVars ==
    /\ tmpFile = NoTmp
    /\ apc = "idle"
    /\ aver = 0
    /\ aprev = ledgerFile
    /\ lastRead = [kind |-> "none", ver |-> 0]

InitOtherTools ==
    /\ InitStart
    /\ InitPublish
    /\ dhist = InitDhist
    /\ mknown = << >>
    /\ mdist = << >>
    /\ mresult = NoResult

\* the session and the ledger operations run on one platform with the
\* ledger file in place (app.py creates it when missing, line 687)
InitTools ==
    /\ platform = "posix"
    /\ ledgerFile = Full(0)
    /\ InitWriteVars
    /\ InitOtherTools
    /\ YOLO = "class"
    /\ InitGate

Init == InitFiles /\ lastCall = NoCall /\ InitSessionVars /\ InitTools

InitWrite ==
    /\ InitFiles /\ lastCall = NoCall /\ InitSessionVars
    /\ platform \in Platforms
    /\ ledgerFile \in {Missing, Full(0)}
    /\ InitWriteVars
    /\ InitOtherTools
    /\ YOLO = "class"
    /\ InitGate

\* the worker past its setup (lines 484-547) with the attendance window
\* open; ultralytics is installed or not (lines 9-12)
InitLiveness ==
    /\ InitFiles /\ lastCall = NoCall
    /\ running = TRUE
    /\ absence_marked = FALSE
    /\ wpc = "top"
    /\ frame_counter = 0
    /\ start_time = 0
    /\ attendance_active = TRUE
    /\ recently_recognized = << >>
    /\ current_lecture = "L1"
    /\ wfaces = << >>
    /\ wtargets = << >>
    /\ wrec = << >>
    /\ wnow = 0
    /\ mpc = "idle" /\ mid = "none" /\ mrec = << >> /\ mnow = 0
    /\ spc = "idle" /\ slecture = "" /\ srec = << >> /\ snow = 0 /\ stopAt = 0
    /\ hist = [InitHist EXCEPT !.started = TRUE]
    /\ platform = "posix"
    /\ ledgerFile = Full(0)
    /\ InitWriteVars
    /\ InitOtherTools
    /\ YOLO \in {"class", "none"}
    /\ InitGate

InitLedger == Init

Next ==
    \/ StartScript
    \/ \E camOk, encOk \in BOOLEAN : WInit(camOk, encOk)
    \/ WInitRaise
    \/ WExit
    \/ WReadFail
    \/ WReadRetry
    \/ \E is_real \in BOOLEAN, faces \in FrameFaces : WFrame(is_real, faces)
    \/ WFrameRaise
    \/ WFace
    \/ \E okL \in BOOLEAN : WPresentSave(okL)
    \/ WTail
    \/ WSweepLoad
    \/ \E okL \in BOOLEAN : WSweepSave(okL)
    \/ \E id \in StudentIds : MobileLoad(id)
    \/ \E okL \in BOOLEAN : MobileSave(okL)
    \/ \E lecture \in StopLectures : StopScript(lecture)
    \/ StopLoad
    \/ \E okL \in BOOLEAN : StopSave(okL)
    \/ \E d \in TickSteps : Tick(d)

Spec == Init /\ [][Next]_vars

\* the worker thread alone: no mobile request, and stop requests that carry
\* no lecture in the web session (stop_script then only clears running)
NextWorker ==
    \/ StartScript
    \/ \E camOk, encOk \in BOOLEAN : WInit(camOk, encOk)
    \/ WInitRaise
    \/ WExit
    \/ WReadFail
    \/ WReadRetry
    \/ \E is_real \in BOOLEAN, faces \in FrameFaces : WFrame(is_real, faces)
    \/ WFrameRaise
    \/ WFace
    \/ \E okL \in BOOLEAN : WPresentSave(okL)
    \/ WTail
    \/ WSweepLoad
    \/ \E okL \in BOOLEAN : WSweepSave(okL)
    \/ StopScript("")
    \/ \E d \in TickSteps : Tick(d)

SpecWorker == Init /\ [][NextWorker]_vars

\* SpecKey: the worker alone, while the teacher may select another subject
\* and the date may roll over
NextKey ==
    \/ NextWorker
    \/ \E subject \in Lectures : SelectSubject(subject)
    \/ Midnight

SpecKey == Init /\ [][NextKey]_vars

\* the steps of the worker thread while no stop request comes
WorkerStep ==
    \/ \E camOk, encOk \in BOOLEAN : WInit(camOk, encOk)
    \/ WInitRaise
    \/ WReadFail
    \/ WReadRetry
    \/ \E is_real \in BOOLEAN, faces \in FrameFaces : WFrame(is_real, faces)
    \/ WFrameRaise
    \/ WFace
    \/ \E okL \in BOOLEAN : WPresentSave(okL)
    \/ WTail
    \/ WSweepLoad
    \/ \E okL \in BOOLEAN : WSweepSave(okL)

\* a session nobody stops
NextClosure ==
    \/ StartScript
    \/ WorkerStep
    \/ \E d \in TickSteps : Tick(d)

\* the worker is a thread of its own (app.py line 2270): while it has a step
\* to take it takes one. What cap.read() returns is the camera's choice.
SpecClosure == Init /\ [][NextClosure]_vars /\ WF_vars(WorkerStep)

SpecLedger == InitLedger /\ [][NextLedger]_vars

SpecWrite == InitWrite /\ [][NextWrite]_vars

SpecDedup == Init /\ [][NextDedup]_vars

SpecMatch == Init /\ [][NextMatch]_vars

SpecLiveness == InitLiveness /\ [][NextLiveness]_vars

SpecStart == Init /\ [][NextStart]_vars

SpecPublish == Init /\ [][NextPublish]_vars

(***************************************************************************)
(* Properties of the ledger operations (SpecLedger).                       *)
(***************************************************************************)
\* C1: after any sequence of markPresent / markAbsent calls on a ledger key
\* (update_attendance_in_database, mark_attendance, both sweeps), no id is in
\* both the present list and the absent list of the key.
C1_SetDisjointness ==
    \A k \in DOMAIN records : SetOf(records[k].present) \cap SetOf(records[k].absent) = {}

\* C1 witness: a markPresent has just been saved on a key that a sweep had
\* filled before, so the key holds present and absent ids at once
C1_Witness ==
    /\ lastCall.op \in PresentOps
    /\ lastCall.saved
    /\ lastCall.n = MaxCalls
    /\ records[lastCall.key].present # <<>>
    /\ records[lastCall.key].absent # <<>>

\* the step is the return of a markPresent whose ledger write succeeded
MarkPresentStep ==
    /\ lastCall'.n = lastCall.n + 1
    /\ lastCall'.op \in PresentOps
    /\ lastCall'.saved

\* the step is the second of two markPresent calls in a row for one key and id
SecondMarkPresentStep ==
    /\ MarkPresentStep
    /\ lastCall.op \in PresentOps
    /\ lastCall.saved
    /\ lastCall'.id = lastCall.id
    /\ lastCall'.key = lastCall.key

\* C3 as claimed: the second of two markPresent(key, id) calls leaves the whole
\* AttendanceEntry (present, absent, time) as the first call left it.
C3_IdempotentWithTime ==
    [][SecondMarkPresentStep => records'[lastCall'.key] = records[lastCall.key]]_vars

\* C3 amended: markPresent(key, id) puts id in present and out of absent and
\* moves no other id; a second call in a row, and any call for an id already
\* present, leaves the present and absent lists as they were (the entry's time
\* is rewritten by update_attendance_in_database).
C3_IdempotentLists ==
    [][MarkPresentStep =>
        LET key == lastCall'.key
            id == lastCall'.id
            old == GetRec(records, key, clock)
            new == records'[key]
        IN  /\ InList(id, new.present)
            /\ ~InList(id, new.absent)
            /\ \A o \in StudentIds \ {id} :
                  /\ InList(o, new.present) <=> InList(o, old.present)
                  /\ InList(o, new.absent) <=> InList(o, old.absent)
            /\ (InList(id, old.present) \/ SecondMarkPresentStep) =>
                  /\ new.present = old.present
                  /\ new.absent = old.absent]_vars

\* C3 witness: markPresent was called twice in a row for an id that a sweep
\* had marked absent, at two different clock values
C3_Witness ==
    /\ lastCall.op = "present"
    /\ lastCall.twice
    /\ lastCall.n = MaxCalls
    /\ clock = MaxLedgerClock
    /\ lastCall.key \in DOMAIN records
    /\ records[lastCall.key].time = clock
    /\ InList(lastCall.id, records[lastCall.key].present)
    /\ records[lastCall.key].absent # <<>>


(***************************************************************************)
(* Properties of the session engine (Spec).                                *)
(***************************************************************************)
\* the ledger entry of the session's key
SessionRec == GetRec(records, Key(today, current_lecture), clock)

\* the timed sweep has been started and has marked its last target
SweepDone == absence_marked /\ wpc \notin {"sweep", "ssave"}

\* C2: markAbsent(key, id), as the sweep issues it through
\* update_attendance_in_database(.., 'Absent'), leaves an id that the entry it
\* loaded holds in present in present and out of absent.
C2_PresenceWins ==
    [][(wpc = "ssave" /\ wpc' # "ssave") =>
        LET sid == Head(wtargets)
            key == Key(today, current_lecture)
            old == GetRec(wrec, key, wnow)
            new == GetRec(records', key, clock)
        IN  InList(sid, old.present) =>
               InList(sid, new.present) /\ ~InList(sid, new.absent)]_vars

\* C4: once the timed sweep has run and absence_marked is set, no later clock
\* evaluation of the worker and no stop request changes the ledger, and
\* absence_marked stays set (steps of the mobile request are not concerned).
C4_SweepOnce ==
    [][(SweepDone /\ mpc' = mpc) => (records' = records /\ absence_marked')]_vars

\* C5: on a fresh key, with every ledger write succeeding and no other writer,
\* when exactly the ids of P (a subset of the cohort R) were recognized in
\* processed frames, the entry after the sweep has present = P, absent = R \ P.
C5_EndToEnd ==
    (SweepDone /\ hist.fresh /\ hist.clean /\ hist.seen \subseteq Cohort(current_lecture)) =>
        /\ SetOf(SessionRec.present) = hist.seen
        /\ SetOf(SessionRec.absent) = Cohort(current_lecture) \ hist.seen

\* C5 witness: S1 was recognized, the window closed, the sweep ran
C5_Witness ==
    /\ SweepDone /\ hist.fresh /\ hist.clean
    /\ hist.seen = {"S1"}
    /\ SessionRec.present = <<"S1">>
    /\ SessionRec.absent = <<"S2">>

\* no thread is between its load and its save of the ledger
Quiescent == wpc \in {"off", "top", "wait"} /\ mpc = "idle" /\ spc \in {"idle", "sleep"}

\* C6: once every writer has completed, the ledger holds the effect of each:
\* every id whose markPresent was written is in present.
C6_NoLostUpdate ==
    Quiescent => \A id \in hist.donePresent : InList(id, SessionRec.present)

\* C7: when the sweep completes, every id that was in present when the sweep's
\* markAbsent for it started is in present and not in absent.
C7_SweepSeesLatestPresent ==
    [][(wpc = "ssave" /\ wpc' = "top") =>
        \A id \in hist.stale :
            LET new == GetRec(records', Key(today, current_lecture), clock)
            IN  InList(id, new.present) /\ ~InList(id, new.absent)]_vars

(***************************************************************************)
(* Properties of the ledger write (SpecWrite).                             *)
(***************************************************************************)
\* C8: whatever step a ledger write has reached or died at, the ledger file
\* holds the complete version from before the write or the complete new one,
\* and no load of the file finds it unparsable.
C8_CrashSafeWrite ==
    /\ ledgerFile.state # "partial"
    /\ apc # "idle" => ledgerFile \in {aprev, Full(aver)}
    /\ lastRead.kind # "unparsable"

\* on a platform whose rename replaces the destination, the same holds
C8_CrashSafeOnPosix == platform = "posix" => C8_CrashSafeWrite

(***************************************************************************)
(* Properties of the cooldown cache (SpecDedup).                           *)
(***************************************************************************)
\* C9: a recognition event for id at time now is suppressed iff an earlier
\* event for id was emitted less than 8 s before now; otherwise it is emitted
\* and lastSeen[id] (recently_recognized) is now; a suppressed event leaves
\* lastSeen[id] as it was. So of two events for one id 2 s apart the second
\* is suppressed; 8 s or 10 s apart it is emitted.
C9_CooldownRule ==
    LET e == dhist.last
    IN  e.id # "none" =>
           /\ e.emitted <=> ~(e.prev >= 0 /\ e.now - e.prev < 8)
           /\ e.emitted => e.seen = e.now
           /\ ~e.emitted => e.seen = e.prev

\* C9 witness: an event exactly 8 s after the last emitted event of the same
\* id has been emitted
C9_Witness ==
    /\ dhist.last.id = "S1"
    /\ dhist.last.prev >= 0
    /\ dhist.last.now - dhist.last.prev = 8
    /\ dhist.last.emitted

(***************************************************************************)
(* Properties of the identity matcher (SpecMatch).                         *)
(***************************************************************************)
\* the smallest of the distances
MinDistance(d) == CHOOSE m \in SetOf(d) : \A i \in 1..Len(d) : m <= d[i]

C11_MajorityOfThree ==
    (ghist.aggregated /\ Len(ghist.offered) = WindowCapacity) =>
        (ghist.is_real <=> RealCount(ghist.offered) >= 3)

\* C12: whenever the gate aggregates its window, full or not, the frame is
\* treated as real exactly when the real verdicts given to the window are at
\* least the capacity of the window divided by two, rounded down.
C12_HalfOfCapacity ==
    ghist.aggregated =>
        (ghist.is_real <=> RealCount(ghist.offered) >= WindowCapacity \div 2)

\* C13: when the classifier is not available after the load (ultralytics is
\* not installed, or the model fails to load), every processed frame is
\* treated as real and the load has printed a line that tells so.
C13_FailOpenLogged ==
    spoofModel = "none" =>
        /\ ghist.processed => ghist.is_real
        /\ "[WARN] Could not load YOLO model" \in glog

(***************************************************************************)
(* Properties of the session's end (SpecClosure, SpecStart, Spec).         *)
(***************************************************************************)
\* C14: in a session nobody stops, once the attendance duration has elapsed
\* since the start of the session, and the worker is running, the attendance
\* window eventually closes and the timed sweep eventually starts, whatever
\* the camera's reads return.
C14_WindowCloses ==
    (/\ wpc \notin {"off", "init"}
     /\ clock - start_time >= ATTENDANCE_DURATION
     /\ frame_counter < MaxFrames)
        ~> (~attendance_active /\ absence_marked)

\* C15: at most one worker thread is alive at any time, whatever the
\* interleaving of the requests to /start and /stop and of the workers.
C15_OneWorker == Cardinality({t \in Requests : Alive(t)}) <= 1

\* C17: a request to /start that finds no session running while the capture
\* device cannot be opened answers with a failure, starts no worker thread
\* and leaves running false.
C17_NoCameraNoSession ==
    [][\A r \in Requests :
          (starts[r] = "passed" /\ starts'[r] = "done" /\ ~camera) =>
              /\ reply'[r] # "Started"
              /\ threads'[r] = "none"
              /\ ~running']_vars

\* C18: the worker, once in its loop, ends only after a stop request has
\* cleared running: no failure in the handling of a frame ends it.
C18_EndsOnlyOnStop ==
    [][(wpc \notin {"off", "init"} /\ wpc' = "off") => ~running]_vars

\* C16: once the worker has ended and the stop request has finished its
\* absentee marking, with no mobile request in the run, an id whose
\* markPresent the worker was in when the stop request came, and has written,
\* is in present and not in absent.
C16_StopKeepsInflight ==
    (hist.mobiles = 0 /\ spc = "idle" /\ wpc = "off") =>
        \A id \in hist.inflight \cap hist.donePresent :
            InList(id, SessionRec.present) /\ ~InList(id, SessionRec.absent)

(***************************************************************************)
(* Properties of failures and of the roster check (SpecLedger, Spec).      *)
(***************************************************************************)
\* C19: when the ledger write of a markPresent fails, the mark is not lost:
\* the next markPresent on the same key whose write succeeds writes the
\* earlier id to present as well.
C19_FailedWriteKept ==
    [][(/\ lastCall.op = "present" /\ ~lastCall.saved
        /\ lastCall'.n = lastCall.n + 1
        /\ lastCall'.op = "present" /\ lastCall'.saved
        /\ lastCall'.key = lastCall.key) =>
           InList(lastCall.id, GetRec(records', lastCall.key, clock).present)]_vars

\* C20: in every ledger entry of the session engine, each id in present is an
\* id of the roster whose year is the year of the entry's lecture.
C20_PresentInCohort ==
    \A key \in DOMAIN records :
        \A id \in SetOf(records[key].present) :
            /\ id \in DOMAIN students
            /\ students[id].year = get_subject_year(key[2])

(***************************************************************************)
(* Properties of the frame publisher (SpecPublish).                        *)
(***************************************************************************)
\* C21: every frame the reader yields is the frame that was published
\* together with the version the reader recorded for it, and the reader
\* yields no published frame twice.
C21_NoFrameTwice ==
    /\ ~phist.twice
    /\ phist.last # NoYield => phist.last \in phist.published

(***************************************************************************)
(* Properties of the worker's end and of the session window (SpecWorker,   *)
(* Spec).                                                                  *)
(***************************************************************************)
\* C22: when the worker has ended, running is false and a camera that the
\* worker had opened has been released.
C22_CleanExit ==
    (hist.started /\ wpc = "off") => (~running /\ hist.cap # "open")

\* C23: whenever absence_marked is set and the worker is not inside the sweep,
\* every student of the session's cohort is in present or in absent of the
\* session's entry.
C23_ClosedMeansSwept ==
    SweepDone =>
        \A id \in Cohort(current_lecture) :
            InList(id, SessionRec.present) \/ InList(id, SessionRec.absent)

\* C25: once the finalizer sweep of the session has run, no step adds an id
\* to present of the session's entry (so none moves from absent to present).
C25_ClosedWindow ==
    [][SweepDone =>
          LET key == Key(today, current_lecture)
              old == GetRec(records, key, clock)
              new == GetRec(records', key, clock)
          IN  SetOf(new.present) \subseteq SetOf(old.present)]_vars

(***************************************************************************)
(* More properties of the liveness gate (SpecLiveness).                    *)
(***************************************************************************)
\* C24: on every processed frame, recognition proceeds (is_real) only if the
\* verdict the gate gave when the classifier last ran is 'real'.
C24_GateHolds == (ghist.processed /\ ghist.is_real) => ghist.gate

\* C26: the window stored in shared_data holds at most 5 verdicts, and they
\* are exactly the most recent verdicts given to it, in arrival order.
C26_WindowIsFifo ==
    /\ Len(recent_spoof_results) <= WindowCapacity
    /\ recent_spoof_results = ghist.offered

\* C27: the first verdict the gate gives in a session does not depend on an
\* earlier session of the process: as in a process that has just started,
\* it is the verdict of the classifier on that frame.
C27_FreshGatePerSession == ghist.first => (ghist.is_real = ghist.verdict)

(***************************************************************************)
(* More properties of the cooldown cache (SpecDedup).                      *)
(***************************************************************************)
\* C28: a cleanup pass removes exactly the entries that are at least 16 s
\* old and leaves the others as they are, and every emit/suppress decision
\* is the decision of a worker that sees the same recognitions at the same
\* times and never runs the pass.
C28_CleanupIsMaintenance ==
    LET e == dhist.last
        g == dhist.gc
    IN  /\ e.id # "none" => (e.emitted <=> e.plain)
        /\ \A k \in DOMAIN g.before :
              /\ k \notin DOMAIN g.after <=> g.at - g.before[k] >= 16
              /\ k \in DOMAIN g.after => g.after[k] = g.before[k]
        /\ DOMAIN g.after \subseteq DOMAIN g.before

\* C28 witness: the pass has removed the entry of S1, and a recognition of S1
\* after the pass has been emitted, as without the pass
C28_Witness ==
    /\ "S1" \in DOMAIN dhist.gc.before
    /\ "S1" \notin DOMAIN dhist.gc.after
    /\ dhist.last.id = "S1"
    /\ dhist.last.emitted
    /\ dhist.last.plain
    /\ frame_counter > CleanupEveryFrames

(***************************************************************************)
(* More properties of the ledger operations (SpecLedger, SpecKey).         *)
(***************************************************************************)
\* every student's total_attendance is the number of ledger keys whose
\* present list holds the student
TotalsMatch ==
    \A id \in StudentIds :
        students[id].total =
            Cardinality({key \in DOMAIN records : InList(id, records[key].present)})

\* C29: a ledger operation whose writes succeed keeps every student's
\* total_attendance equal to the number of keys that list the student as
\* present (the write of the ledger is told by lastCall.saved; a markPresent
\* of an id not yet present whose roster write fails leaves the roster as it
\* was).
C29_TotalsCountPresent ==
    [][(/\ TotalsMatch
        /\ lastCall'.n = lastCall.n + 1
        /\ lastCall'.saved
        /\ (lastCall'.op = "present"
              /\ ~InList(lastCall'.id, GetRec(records, lastCall'.key, clock).present))
           => students' # students)
       => TotalsMatch']_vars

\* C30: every ledger entry the session's worker changes, by a markPresent or
\* by a markAbsent of the sweep, is the entry of the key (date, lecture) in
\* force when the session started, whatever happens to current_teacher.json
\* and to the date meanwhile (in SpecKey the worker is the only writer).
C30_OneKeyPerSession ==
    [][\A key \in DOMAIN records' :
          (key \notin DOMAIN records \/ records'[key] # records[key])
             => key = hist.key]_vars

=============================================================================
